---------------------------- MODULE Spec2Model ----------------------------
(***************************************************************************)
(* Model of compute_metrics/compute_metrics_reloaded.py: the command-line  *)
(* run (main), the per-subject evaluation (compute_metrics_single_subject) *)
(* with its for/break/else loop, and the flattening of the per-subject     *)
(* dictionaries into table rows (build_output_dataframe).                  *)
(*                                                                         *)
(* A volume is an array: its shape and its voxel values in flat order.     *)
(* Voxel values are the naturals 0..MaxLabel (0 is background).  A path is *)
(* a directory tag and the rank of the file name in the sorted listing.    *)
(* The metric engine (MetricsReloaded's BinaryPairwiseMeasures) is outside *)
(* the repository: a metric value is kept as the uninterpreted term        *)
(* (name, prediction array, reference array) it is computed from.          *)
(***************************************************************************)
EXTENDS Integers, Sequences, FiniteSets

VARIABLES
    args,             \* parsed command line: kind of the two paths, metrics
    disk,             \* content of the prediction and reference locations
    pc,               \* position of the run
    error,            \* the exception that ended the run, "none" otherwise
    prediction_files, \* main: sorted list of prediction paths
    reference_files,  \* main: sorted list of reference paths
    i,                \* main: index of the subject being processed
    prediction_data,  \* compute_metrics_single_subject: loaded prediction
    reference_data,   \* compute_metrics_single_subject: loaded reference
    unique_labels,    \* compute_metrics_single_subject: discovered labels
    k,                \* position of the for-loop iterator in unique_labels
    metrics_dict,     \* compute_metrics_single_subject: dict being filled
    output_list,      \* main: list of returned dictionaries
    df,               \* main: rows of the data frame
    saved,            \* main: the CSV file was written
    engine_calls,     \* history: every (prediction, reference, measures) given to BPM
    events            \* history: steps taken, each with its subject index

vars == <<args, disk, pc, error, prediction_files, reference_files, i,
          prediction_data, reference_data, unique_labels, k, metrics_dict,
          output_list, df, saved, engine_calls, events>>

-----------------------------------------------------------------------------
(* Bounds of the model *)

MaxLabel == 3

MaxVox == 2

MaxSubjects == 2

-----------------------------------------------------------------------------
(* Arrays and files *)

RECURSIVE SeqSum(_)
SeqSum(s) == IF s = <<>> THEN 0 ELSE Head(s) + SeqSum(Tail(s))

Array(shape, data) == [shape |-> shape, data |-> data]

NoData == Array(<<>>, <<>>)

File(exists, array) == [exists |-> exists, array |-> array]

NoFile == File(FALSE, NoData)

\* every one-dimensional volume of 1..MaxVox voxels with values in 0..MaxLabel
Volumes ==
    UNION { { Array(<<n>>, d) : d \in [1..n -> 0..MaxLabel] } : n \in 1..MaxVox }

Files == { File(TRUE, v) : v \in Volumes } \cup {NoFile}

\* the files a folder may hold: a broken link, an all-background volume, two
\* labelled volumes, and an all-background volume of the same size but another shape
BatchFiles ==
    { NoFile,
      File(TRUE, Array(<<2>>, <<0, 0>>)),
      File(TRUE, Array(<<2>>, <<2, 1>>)),
      File(TRUE, Array(<<2>>, <<1, 0>>)),
      File(TRUE, Array(<<1, 2>>, <<0, 0>>)) }

Path(dir, n) == [dir |-> dir, n |-> n]

Recognized == {"dsc", "fbeta", "nsd", "vol_diff", "rel_vol_diff"}

MetricLists == { <<"dsc", "nsd">>, <<"dsc", "unknown">> }

-----------------------------------------------------------------------------
(* Python dict: insertion-ordered sequence of key/value entries *)

StrKey(s) == [kind |-> "str", name |-> s, num |-> 0]

NumKey(n) == [kind |-> "num", name |-> "", num |-> n]

DictKeys(d) == [j \in 1..Len(d) |-> d[j].key]

DictHas(d, key) == \E j \in 1..Len(d) : d[j].key = key

DictGet(d, key) == d[CHOOSE j \in 1..Len(d) : d[j].key = key].val

\* d[key] = val: an existing key keeps its position
DictSet(d, key, val) ==
    IF DictHas(d, key)
    THEN [j \in 1..Len(d) |-> IF d[j].key = key THEN [key |-> key, val |-> val] ELSE d[j]]
    ELSE Append(d, [key |-> key, val |-> val])

-----------------------------------------------------------------------------
(* numpy and the metric engine *)

SeqElems(s) == { s[j] : j \in 1..Len(s) }

SetMin(S) == CHOOSE x \in S : \A y \in S : x <= y

RECURSIVE SortedSeq(_)
SortedSeq(S) ==
    IF S = {} THEN <<>> ELSE <<SetMin(S)>> \o SortedSeq(S \ {SetMin(S)})

\* np.unique: the distinct values of a flat array, sorted ascending
NpUnique(data) == SortedSeq(SeqElems(data))

\* labels[labels != 0]
RemoveBackground(labels) == SelectSeq(labels, LAMBDA x : x # 0)

\* max(unique_labels)
PyMax(labels) == CHOOSE x \in SeqElems(labels) : \A y \in SeqElems(labels) : y <= x

\* np.array(data == label, dtype=float)
MaskOf(array, label) ==
    Array(array.shape,
          [j \in 1..Len(array.data) |-> IF array.data[j] = label THEN 1 ELSE 0])

\* BPM(pred, ref, measures): the engine object with its two empty flags
BPM(pred, ref, measures) ==
    [pred |-> pred, ref |-> ref, measures |-> measures,
     flag_empty_pred |-> SeqSum(pred.data) = 0,
     flag_empty_ref |-> SeqSum(ref.data) = 0]

\* bpm.to_dict_meas() fails on a measure name the engine does not know
ToDictMeasRaises(bpm) == \E j \in 1..Len(bpm.measures) : bpm.measures[j] \notin Recognized

\* bpm.to_dict_meas(): one value per requested measure, in request order
ToDictMeas(bpm) ==
    [j \in 1..Len(bpm.measures) |->
        [name |-> bpm.measures[j],
         value |-> [metric |-> bpm.measures[j], pred |-> bpm.pred, ref |-> bpm.ref]]]

\* dict_seg after the two flags are stored in it
DictSeg(bpm) ==
    [meas |-> ToDictMeas(bpm),
     EmptyRef |-> bpm.flag_empty_ref,
     EmptyPred |-> bpm.flag_empty_pred]

EngineCall(subj, bpm) ==
    [subj |-> subj, pred |-> bpm.pred, ref |-> bpm.ref, measures |-> bpm.measures]

Event(ev, subj) == [ev |-> ev, subj |-> subj]

-----------------------------------------------------------------------------
(* load_nifti_image *)

FileAt(path) ==
    IF path.dir = "prediction" THEN disk.prediction[path.n] ELSE disk.reference[path.n]

PathExists(path) == FileAt(path).exists

load_nifti_image(path) == FileAt(path).array

-----------------------------------------------------------------------------
(* compute_metrics_single_subject: the pieces the steps below are made of *)

ShapeMismatchNdim(pred, ref) == Len(pred.shape) # Len(ref.shape)

\* prediction_data.shape != reference_data.shape
ShapeMismatch(pred, ref) == pred.shape # ref.shape

UniqueLabelsReferenceOnly(ref, pred) == RemoveBackground(NpUnique(ref.data))

UniqueLabelsNoFinalUnique(ref, pred) ==
    RemoveBackground(NpUnique(ref.data)) \o RemoveBackground(NpUnique(pred.data))

\* the labels present in the reference OR the prediction
UniqueLabels(ref, pred) ==
    NpUnique(RemoveBackground(NpUnique(ref.data))
             \o RemoveBackground(NpUnique(pred.data)))

InitMetricsDictKept(reference, prediction) ==
    IF output_list = <<>>
    THEN << [key |-> StrKey("reference"), val |-> reference],
            [key |-> StrKey("prediction"), val |-> prediction] >>
    ELSE DictSet(DictSet(output_list[Len(output_list)],
                         StrKey("reference"), reference),
                 StrKey("prediction"), prediction)

\* metrics_dict = {'reference': reference, 'prediction': prediction}
InitMetricsDict(reference, prediction) ==
    << [key |-> StrKey("reference"), val |-> reference],
       [key |-> StrKey("prediction"), val |-> prediction] >>

LoopBPMSwapped(label) ==
    BPM(MaskOf(reference_data, label), MaskOf(prediction_data, label), args.metrics)

\* the engine object of one loop iteration, on the two masks of the label
LoopBPM(label) ==
    BPM(MaskOf(prediction_data, label), MaskOf(reference_data, label), args.metrics)

ElseBPMMasked == BPM(MaskOf(prediction_data, 0), MaskOf(reference_data, 0), args.metrics)

\* the engine object of the else block, on the whole volumes
ElseBPM == BPM(prediction_data, reference_data, args.metrics)

BreakConditionFirst(label, labels) == label = labels[1]

\* if label == max(unique_labels)
BreakCondition(label, labels) == label = PyMax(labels)

-----------------------------------------------------------------------------
(* build_output_dataframe *)

IsLabelKey(key) == key \notin {StrKey("reference"), StrKey("prediction")}

\* labels = [key for key in item.keys() if key not in ['reference', 'prediction']]
LabelKeys(item) == SelectSeq(DictKeys(item), IsLabelKey)

\* row = {reference, prediction, label}; row.update(metrics)
Row(item, label) ==
    [reference |-> DictGet(item, StrKey("reference")),
     prediction |-> DictGet(item, StrKey("prediction")),
     label |-> label.num,
     meas |-> DictGet(item, label).meas,
     EmptyRef |-> DictGet(item, label).EmptyRef,
     EmptyPred |-> DictGet(item, label).EmptyPred]

\* the inner loop: one row appended for each label of the item
ItemRows(item) == [j \in 1..Len(LabelKeys(item)) |-> Row(item, LabelKeys(item)[j])]

ItemRowsLastOnly(item) ==
    IF LabelKeys(item) = <<>> THEN <<>>
    ELSE << Row(item, LabelKeys(item)[Len(LabelKeys(item))]) >>

RECURSIVE RowsFrom(_, _)
RowsFrom(list, rows) ==
    IF list = <<>> THEN rows
    ELSE RowsFrom(Tail(list), rows \o ItemRows(Head(list)))

RECURSIVE RowsFromLastOnly(_, _)
RowsFromLastOnly(list, rows) ==
    IF list = <<>> THEN rows
    ELSE RowsFromLastOnly(Tail(list), rows \o ItemRowsLastOnly(Head(list)))

build_output_dataframeLastOnly(list) == RowsFromLastOnly(list, <<>>)

\* rows = []; for item in output_list: for label in labels: rows.append(row)
build_output_dataframe(list) == RowsFrom(list, <<>>)

-----------------------------------------------------------------------------
(* The run *)

NSubjects == Len(prediction_files)

\* the pair of paths compute_metrics_single_subject is called with
CurPrediction == prediction_files[i]

CurReference == reference_files[i]

InitSingle ==
    /\ \E f \in Files, g \in Files :
          disk = [prediction |-> <<f>>, reference |-> <<g>>]
    /\ \E m \in MetricLists : args = [kind |-> "file", metrics |-> m]

InitFolder ==
    /\ \E n \in 0..MaxSubjects, m \in 0..MaxSubjects :
          \E fs \in [1..n -> BatchFiles], gs \in [1..m -> BatchFiles] :
             disk = [prediction |-> fs, reference |-> gs]
    /\ \E m \in MetricLists : args = [kind |-> "dir", metrics |-> m]

Init ==
    /\ (InitSingle \/ InitFolder)
    /\ pc = "main"
    /\ error = "none"
    /\ prediction_files = <<>>
    /\ reference_files = <<>>
    /\ i = 0
    /\ prediction_data = NoData
    /\ reference_data = NoData
    /\ unique_labels = <<>>
    /\ k = 0
    /\ metrics_dict = <<>>
    /\ output_list = <<>>
    /\ df = <<>>
    /\ saved = FALSE
    /\ engine_calls = <<>>
    /\ events = <<>>

\* get_images_in_folder: the .nii.gz files of a directory, sorted
SortedListing(dir, content) == [j \in 1..Len(content) |-> Path(dir, j)]

RaiseSwallowed(e) ==
    /\ error' = e
    /\ IF i < NSubjects THEN i' = i + 1 /\ pc' = "load" ELSE i' = i /\ pc' = "build"
    /\ UNCHANGED <<output_list, df, saved, k, unique_labels, metrics_dict>>

\* an exception no caller catches: the interpreter exits
Raise(e) ==
    /\ error' = e
    /\ pc' = "aborted"
    /\ UNCHANGED <<i, output_list, df, saved, k, unique_labels, metrics_dict>>

\* main, one pair of files: the else branch of the isdir test
MainSingle ==
    /\ pc = "main"
    /\ args.kind = "file"
    /\ prediction_files' = <<Path("prediction", 1)>>
    /\ reference_files' = <<Path("reference", 1)>>
    /\ i' = 1
    /\ pc' = "load"
    /\ UNCHANGED <<args, disk, error, prediction_data, reference_data, unique_labels,
                   k, metrics_dict, output_list, df, saved, engine_calls, events>>

\* main, two folders holding the same number of files
MainFolder ==
    /\ pc = "main"
    /\ args.kind = "dir"
    /\ Len(disk.prediction) = Len(disk.reference)
    /\ prediction_files' = SortedListing("prediction", disk.prediction)
    /\ reference_files' = SortedListing("reference", disk.reference)
    /\ i' = 1
    /\ pc' = IF Len(disk.prediction) = 0 THEN "build" ELSE "load"
    /\ UNCHANGED <<args, disk, error, prediction_data, reference_data, unique_labels,
                   k, metrics_dict, output_list, df, saved, engine_calls, events>>

\* get_images_in_folder: the two folders hold different numbers of files
MainFolderCountMismatch ==
    /\ pc = "main"
    /\ args.kind = "dir"
    /\ Len(disk.prediction) # Len(disk.reference)
    /\ Raise("ValueError: number of files")
    /\ UNCHANGED <<args, disk, prediction_files, reference_files, prediction_data,
                   reference_data, engine_calls, events>>

\* both images are loaded, the prediction first
LoadImages ==
    /\ pc = "load"
    /\ PathExists(CurPrediction)
    /\ PathExists(CurReference)
    /\ prediction_data' = load_nifti_image(CurPrediction)
    /\ reference_data' = load_nifti_image(CurReference)
    /\ events' = Append(events, Event("load", i))
    /\ pc' = "shape"
    /\ UNCHANGED <<args, disk, error, prediction_files, reference_files, i,
                   unique_labels, k, metrics_dict, output_list, df, saved, engine_calls>>

\* load_nifti_image raises on the first of the two files that does not exist
LoadRaises ==
    /\ pc = "load"
    /\ ~(PathExists(CurPrediction) /\ PathExists(CurReference))
    /\ prediction_data' = IF PathExists(CurPrediction)
                          THEN load_nifti_image(CurPrediction) ELSE prediction_data
    /\ UNCHANGED reference_data
    /\ events' = Append(events, Event("load", i))
    /\ Raise("FileNotFoundError")
    /\ UNCHANGED <<args, disk, prediction_files, reference_files, engine_calls>>

ShapeRaises ==
    /\ pc = "shape"
    /\ ShapeMismatch(prediction_data, reference_data)
    /\ Raise("ValueError: shape")
    /\ UNCHANGED <<args, disk, prediction_files, reference_files, prediction_data,
                   reference_data, engine_calls, events>>

ShapeOk ==
    /\ pc = "shape"
    /\ ~ShapeMismatch(prediction_data, reference_data)
    /\ pc' = "discover"
    /\ UNCHANGED <<args, disk, error, prediction_files, reference_files, i,
                   prediction_data, reference_data, unique_labels, k, metrics_dict,
                   output_list, df, saved, engine_calls, events>>

\* the unique labels, the fresh dictionary, and the loop iterator at its start
DiscoverLabels ==
    /\ pc = "discover"
    /\ unique_labels' = UniqueLabels(reference_data, prediction_data)
    /\ metrics_dict' = InitMetricsDict(CurReference, CurPrediction)
    /\ k' = 1
    /\ events' = Append(events, Event("discover", i))
    /\ pc' = "for"
    /\ UNCHANGED <<args, disk, error, prediction_files, reference_files, i,
                   prediction_data, reference_data, output_list, df, saved, engine_calls>>

\* one iteration of the loop body, left through the break or back to the for
ForBody ==
    /\ pc = "for"
    /\ k <= Len(unique_labels)
    /\ LET label == unique_labels[k]
           bpm == LoopBPM(label)
       IN /\ ~ToDictMeasRaises(bpm)
          /\ engine_calls' = Append(engine_calls, EngineCall(i, bpm))
          /\ metrics_dict' = DictSet(metrics_dict, NumKey(label), DictSeg(bpm))
          /\ IF BreakCondition(label, unique_labels)
             THEN pc' = "return" /\ k' = k
             ELSE pc' = "for" /\ k' = k + 1
    /\ events' = Append(events, Event("bpm", i))
    /\ UNCHANGED <<args, disk, error, prediction_files, reference_files, i,
                   prediction_data, reference_data, unique_labels, output_list, df, saved>>

\* the loop body, the engine not knowing a requested measure
ForBodyRaises ==
    /\ pc = "for"
    /\ k <= Len(unique_labels)
    /\ LET bpm == LoopBPM(unique_labels[k])
       IN /\ ToDictMeasRaises(bpm)
          /\ engine_calls' = Append(engine_calls, EngineCall(i, bpm))
    /\ events' = Append(events, Event("bpm", i))
    /\ Raise("KeyError")
    /\ UNCHANGED <<args, disk, prediction_files, reference_files, prediction_data,
                   reference_data>>

\* the iterator is exhausted without a break: the else block
ForElse ==
    /\ pc = "for"
    /\ k > Len(unique_labels)
    /\ ~ToDictMeasRaises(ElseBPM)
    /\ engine_calls' = Append(engine_calls, EngineCall(i, ElseBPM))
    /\ metrics_dict' = DictSet(metrics_dict, NumKey(0), DictSeg(ElseBPM))
    /\ events' = Append(events, Event("bpm", i))
    /\ pc' = "return"
    /\ UNCHANGED <<args, disk, error, prediction_files, reference_files, i,
                   prediction_data, reference_data, unique_labels, k, output_list,
                   df, saved>>

ForElseRaises ==
    /\ pc = "for"
    /\ k > Len(unique_labels)
    /\ ToDictMeasRaises(ElseBPM)
    /\ engine_calls' = Append(engine_calls, EngineCall(i, ElseBPM))
    /\ events' = Append(events, Event("bpm", i))
    /\ Raise("KeyError")
    /\ UNCHANGED <<args, disk, prediction_files, reference_files, prediction_data,
                   reference_data>>

\* return metrics_dict; output_list.append(metrics_dict); next subject if any
ReturnAppend ==
    /\ pc = "return"
    /\ output_list' = Append(output_list, metrics_dict)
    /\ events' = Append(events, Event("return", i))
    /\ IF i < NSubjects THEN i' = i + 1 /\ pc' = "load" ELSE i' = i /\ pc' = "build"
    /\ UNCHANGED <<args, disk, error, prediction_files, reference_files,
                   prediction_data, reference_data, unique_labels, k, metrics_dict,
                   df, saved, engine_calls>>

BuildDataframe ==
    /\ pc = "build"
    /\ df' = build_output_dataframe(output_list)
    /\ events' = Append(events, Event("build", i))
    /\ pc' = "save"
    /\ UNCHANGED <<args, disk, error, prediction_files, reference_files, i,
                   prediction_data, reference_data, unique_labels, k, metrics_dict,
                   output_list, saved, engine_calls>>

SaveCsv ==
    /\ pc = "save"
    /\ saved' = TRUE
    /\ pc' = "done"
    /\ UNCHANGED <<args, disk, error, prediction_files, reference_files, i,
                   prediction_data, reference_data, unique_labels, k, metrics_dict,
                   output_list, df, engine_calls, events>>

Next ==
    \/ MainSingle
    \/ MainFolder
    \/ MainFolderCountMismatch
    \/ LoadImages
    \/ LoadRaises
    \/ ShapeRaises
    \/ ShapeOk
    \/ DiscoverLabels
    \/ ForBody
    \/ ForBodyRaises
    \/ ForElse
    \/ ForElseRaises
    \/ ReturnAppend
    \/ BuildDataframe
    \/ SaveCsv

Spec == Init /\ [][Next]_vars

-----------------------------------------------------------------------------
(* Vocabulary of the properties *)

NonZeroValues(array) == { array.data[j] : j \in 1..Len(array.data) } \ {0}

AllBackground(array) == \A j \in 1..Len(array.data) : array.data[j] = 0

StrictlyAscending(s) == \A a, b \in 1..Len(s) : a < b => s[a] < s[b]

HasUnrecognized(metrics) == \E j \in 1..Len(metrics) : metrics[j] \notin Recognized

\* the volumes on disk of the s-th subject of the run
PredictionOf(s) == FileAt(prediction_files[s]).array

ReferenceOf(s) == FileAt(reference_files[s]).array

LabelsOf(s) == NonZeroValues(ReferenceOf(s)) \cup NonZeroValues(PredictionOf(s))

\* the entries of a Subject Result other than the two identifying ones
LabelEntries(item) ==
    SelectSeq(item, LAMBDA e : e.key # StrKey("reference") /\ e.key # StrKey("prediction"))

CallsOf(s) == SelectSeq(engine_calls, LAMBDA c : c.subj = s)

EventsOf(ev, s) == { a \in 1..Len(events) : events[a] = Event(ev, s) }

RowsOf(s) == SelectSeq(df, LAMBDA r : r.reference = reference_files[s])

\* the labels are discovered for the subject at hand
InSubjectLoop == pc \in {"for", "return"}

TableBuilt == pc \in {"save", "done"}

-----------------------------------------------------------------------------
(* C1 *)

\* C1: once the labels of a subject are discovered, unique_labels is strictly
\* ascending (so without duplicates), never holds 0, holds exactly the non-zero
\* values of the reference and of the prediction, and is empty exactly when both
\* volumes are all background.
C1_LabelSetIsSortedUnion ==
    InSubjectLoop =>
        /\ StrictlyAscending(unique_labels)
        /\ 0 \notin SeqElems(unique_labels)
        /\ SeqElems(unique_labels)
              = NonZeroValues(reference_data) \cup NonZeroValues(prediction_data)
        /\ (unique_labels = <<>>)
              <=> (AllBackground(reference_data) /\ AllBackground(prediction_data))

C1_Witness ==
    /\ pc = "for"
    /\ NonZeroValues(reference_data) = {1, 2}
    /\ NonZeroValues(prediction_data) = {1, 3}
    /\ unique_labels = <<1, 2, 3>>

-----------------------------------------------------------------------------
(* C2 *)

\* C2: a returned subject whose two volumes are all background has exactly one
\* Metric Record, under key 0; the engine was called exactly once for it, on the
\* two whole volumes with the requested metric list; and the table, once built,
\* holds exactly one row for it, with label 0.
C2_AllBackgroundGivesKeyZero ==
    \A s \in 1..Len(output_list) :
        (AllBackground(ReferenceOf(s)) /\ AllBackground(PredictionOf(s))) =>
            /\ Len(LabelEntries(output_list[s])) = 1
            /\ LabelEntries(output_list[s])[1].key = NumKey(0)
            /\ Len(CallsOf(s)) = 1
            /\ CallsOf(s)[1].pred = PredictionOf(s)
            /\ CallsOf(s)[1].ref = ReferenceOf(s)
            /\ CallsOf(s)[1].measures = args.metrics
            /\ \A j \in 1..Len(args.metrics) :
                  LabelEntries(output_list[s])[1].val.meas[j].value
                     = [metric |-> args.metrics[j],
                        pred |-> PredictionOf(s), ref |-> ReferenceOf(s)]
            /\ TableBuilt => (Len(RowsOf(s)) = 1 /\ RowsOf(s)[1].label = 0)

C2_Witness ==
    /\ pc = "done"
    /\ Len(output_list) = 2
    /\ AllBackground(ReferenceOf(2)) /\ AllBackground(PredictionOf(2))
    /\ LabelsOf(1) # {}
    /\ Len(RowsOf(2)) = 1

-----------------------------------------------------------------------------
(* C3 *)

IsMaskOf(mask, array, l) ==
    /\ mask.shape = array.shape
    /\ Len(mask.data) = Len(array.data)
    /\ \A j \in 1..Len(array.data) : (mask.data[j] = 1) <=> (array.data[j] = l)
    /\ \A j \in 1..Len(array.data) : mask.data[j] \in {0, 1}

-----------------------------------------------------------------------------
(* C4 *)

\* C4: a metric list with a name the engine does not know makes the run fail at
\* startup: no mask pair is ever handed to the engine, and when the run ends on the
\* unknown name no subject's volumes have been loaded.
C4_UnrecognizedMetricFailsAtStartup ==
    HasUnrecognized(args.metrics) =>
        /\ engine_calls = <<>>
        /\ error = "KeyError" =>
              /\ \A a \in 1..Len(events) : events[a].ev # "load"
              /\ prediction_data = NoData
              /\ reference_data = NoData

-----------------------------------------------------------------------------
(* C5 *)

\* C5: volumes of different shape never get past the shape check: labels are only
\* discovered for same-shaped volumes, and a run ended by the shape error has
\* discovered no labels and called the engine not once for that subject, holds no
\* result for it, and has built no table and written no file.
C5_ShapeMismatchAborts ==
    /\ pc \in {"discover", "for", "return"} => prediction_data.shape = reference_data.shape
    /\ \A s \in 1..NSubjects :
          (/\ PathExists(prediction_files[s])
           /\ PathExists(reference_files[s])
           /\ PredictionOf(s).shape # ReferenceOf(s).shape) =>
             /\ EventsOf("discover", s) = {}
             /\ CallsOf(s) = <<>>
             /\ Len(output_list) < s
             /\ ~TableBuilt
             /\ df = <<>>
             /\ ~saved
    /\ error = "ValueError: shape" =>
          /\ pc = "aborted"
          /\ prediction_data.shape # reference_data.shape
          /\ Len(output_list) = i - 1

C5_Witness ==
    /\ error = "ValueError: shape"
    /\ i = 2
    /\ Len(output_list) = 1
    /\ Len(CallsOf(1)) = 2
    /\ CallsOf(2) = <<>>

-----------------------------------------------------------------------------
(* C6 *)

RECURSIVE LabelCountUpTo(_)
\* the number of label keys of the first s Subject Results
LabelCountUpTo(s) ==
    IF s = 0 THEN 0 ELSE LabelCountUpTo(s - 1) + Len(LabelEntries(output_list[s]))

\* C6: the built table has one row for each (Subject Result, label key) pair: the
\* j-th label key of the s-th result gives the row after those of the results
\* before it, with that result's reference and prediction, the label, and the fields
\* of the label's Metric Record; the number of rows is the sum of the numbers of
\* label keys.
C6_OneRowPerSubjectLabel ==
    TableBuilt =>
        /\ Len(df) = LabelCountUpTo(Len(output_list))
        /\ \A s \in 1..Len(output_list) :
              \A j \in 1..Len(LabelEntries(output_list[s])) :
                 LET e == LabelEntries(output_list[s])[j]
                     row == df[LabelCountUpTo(s - 1) + j]
                 IN /\ row.reference = output_list[s][1].val
                    /\ row.reference = reference_files[s]
                    /\ row.prediction = output_list[s][2].val
                    /\ row.prediction = prediction_files[s]
                    /\ row.label = e.key.num
                    /\ row.meas = e.val.meas
                    /\ row.EmptyRef = e.val.EmptyRef
                    /\ row.EmptyPred = e.val.EmptyPred

C6_Witness ==
    /\ pc = "done"
    /\ Len(output_list) = 2
    /\ Len(LabelEntries(output_list[1])) = 1
    /\ Len(LabelEntries(output_list[2])) = 2
    /\ Len(df) = 3

-----------------------------------------------------------------------------
(* C7 *)

\* C7: in the built table the rows of an earlier-processed subject all precede the
\* rows of a later-processed one, and the rows of one subject are in strictly
\* ascending label order.
C7_RowOrderStable ==
    TableBuilt =>
        \A a, b \in 1..Len(df) :
            a < b =>
               /\ df[a].reference.n <= df[b].reference.n
               /\ df[a].reference.n = df[b].reference.n => df[a].label < df[b].label

C7_Witness ==
    /\ pc = "done"
    /\ Len(df) = 4
    /\ df[1].reference.n = 1 /\ df[2].reference.n = 1
    /\ df[3].reference.n = 2 /\ df[4].reference.n = 2
    /\ df[1].label = 1 /\ df[2].label = 2

-----------------------------------------------------------------------------
(* C8 *)

\* the label entries of the Subject Result of one pair of volumes evaluated on its
\* own: a record per label of the sorted union, or the whole-volume record under 0
AloneEntries(pred, ref, metrics) ==
    LET L == SortedSeq(NonZeroValues(ref) \cup NonZeroValues(pred))
    IN IF L = <<>>
       THEN << [key |-> NumKey(0), val |-> DictSeg(BPM(pred, ref, metrics))] >>
       ELSE [j \in 1..Len(L) |->
               [key |-> NumKey(L[j]),
                val |-> DictSeg(BPM(MaskOf(pred, L[j]), MaskOf(ref, L[j]), metrics))]]

\* C8: the Subject Result at any position of a batch is the one its own pair of
\* volumes and the metric list give on their own, and carries its own identifiers;
\* so two positions with the same volumes hold the same label entries.
C8_ResultDependsOnOwnInputsOnly ==
    /\ \A s \in 1..Len(output_list) :
          /\ LabelEntries(output_list[s])
                = AloneEntries(PredictionOf(s), ReferenceOf(s), args.metrics)
          /\ DictGet(output_list[s], StrKey("reference")) = reference_files[s]
          /\ DictGet(output_list[s], StrKey("prediction")) = prediction_files[s]
    /\ \A s, t \in 1..Len(output_list) :
          (PredictionOf(s) = PredictionOf(t) /\ ReferenceOf(s) = ReferenceOf(t)) =>
              LabelEntries(output_list[s]) = LabelEntries(output_list[t])

C8_Witness ==
    /\ Len(output_list) = 2
    /\ Len(LabelEntries(output_list[1])) = 2
    /\ AllBackground(PredictionOf(2)) /\ AllBackground(ReferenceOf(2))
    /\ DictKeys(LabelEntries(output_list[2])) = <<NumKey(0)>>

-----------------------------------------------------------------------------
(* C9 *)

\* C9: subjects are evaluated one after the other (every step of a subject comes
\* after the return of the one before it), the table is built and written only
\* after every subject has returned, and a run ended by an error has built no table
\* and written no file, whatever was evaluated before.
C9_NoPartialTable ==
    /\ \A a, b \in 1..Len(events) : a < b => events[a].subj <= events[b].subj
    /\ \A a \in 1..Len(events) :
          (events[a].ev = "load" /\ events[a].subj > 1) =>
              \E b \in 1..(a - 1) : events[b] = Event("return", events[a].subj - 1)
    /\ TableBuilt =>
          /\ error = "none"
          /\ Len(output_list) = NSubjects
          /\ \A s \in 1..NSubjects : EventsOf("return", s) # {}
    /\ saved => pc = "done"
    /\ error # "none" =>
          /\ pc = "aborted"
          /\ df = <<>>
          /\ ~saved
          /\ \A a \in 1..Len(events) : events[a].ev # "build"

C9_Witness ==
    /\ error = "FileNotFoundError"
    /\ i = 2
    /\ Len(output_list) = 1
    /\ pc = "aborted"
    /\ df = <<>>

-----------------------------------------------------------------------------
(* C10 *)

\* C10: when compute_metrics_single_subject returns, its dictionary holds key 0 iff
\* no label was discovered; with labels discovered the loop was left at the last
\* label, the engine was called exactly once per label, in order, and the label
\* keys are exactly the discovered labels.  While the loop runs, the labels before
\* the iterator are the ones evaluated so far.
C10_BreakElseKeysMatchLabels ==
    /\ pc = "for" =>
          /\ Len(CallsOf(i)) = k - 1
          /\ DictKeys(LabelEntries(metrics_dict))
                = [j \in 1..(k - 1) |-> NumKey(unique_labels[j])]
    /\ pc = "return" =>
          /\ DictHas(metrics_dict, NumKey(0)) <=> (unique_labels = <<>>)
          /\ unique_labels # <<>> =>
                /\ k = Len(unique_labels)
                /\ Len(CallsOf(i)) = Len(unique_labels)
                /\ \A j \in 1..Len(unique_labels) :
                      /\ CallsOf(i)[j].pred = MaskOf(prediction_data, unique_labels[j])
                      /\ CallsOf(i)[j].ref = MaskOf(reference_data, unique_labels[j])
                /\ DictKeys(LabelEntries(metrics_dict))
                      = [j \in 1..Len(unique_labels) |-> NumKey(unique_labels[j])]
          /\ unique_labels = <<>> =>
                /\ Len(CallsOf(i)) = 1
                /\ DictKeys(LabelEntries(metrics_dict)) = <<NumKey(0)>>

C10_Witness ==
    /\ pc = "return"
    /\ Len(unique_labels) = 3
    /\ k = 3
    /\ Len(CallsOf(i)) = 3

====
